---- MODULE Spec2Model ----
(***************************************************************************)
(* A model of albert_datetime_steven (src/__init__.py): the conversions    *)
(* between Unix / NTFS timestamps and calendar strings, and the query      *)
(* dispatcher in front of them.                                            *)
(*                                                                         *)
(* Python's int is unbounded, so a Python int is modelled as a decimal     *)
(* numeral [neg, d]: d holds the digits, least significant first, and the  *)
(* value is  SUM d[i] * 10^(i-1)  -  (IF neg THEN 10^Len(d) ELSE 0)         *)
(* (ten's complement).  A str is a sequence of one-character strings.      *)
(* A datetime is [ord, sod, aware, off]: the proleptic Gregorian ordinal   *)
(* of its wall-clock date (1 = 0001-01-01), the wall-clock second of the   *)
(* day, whether it carries a tzinfo, and that tzinfo's offset in minutes.  *)
(***************************************************************************)
EXTENDS Integers, Sequences, FiniteSets, TLC

-----------------------------------------------------------------------------
(* Python int arithmetic *)

Max(a, b) == IF a >= b THEN a ELSE b

RECURSIVE Pow10(_)
Pow10(k) == IF k = 0 THEN 1 ELSE 10 * Pow10(k - 1)

Digit(x, i) == IF i <= Len(x.d) THEN x.d[i] ELSE IF x.neg THEN 9 ELSE 0

RECURSIVE StripTop(_, _)
StripTop(d, fill) ==
    IF d # <<>> /\ d[Len(d)] = fill
    THEN StripTop(SubSeq(d, 1, Len(d) - 1), fill)
    ELSE d

IntNorm(x) == [neg |-> x.neg, d |-> StripTop(x.d, IF x.neg THEN 9 ELSE 0)]

RECURSIVE NatDigits(_)
NatDigits(n) == IF n = 0 THEN <<>> ELSE <<n % 10>> \o NatDigits(n \div 10)

RECURSIVE AddDigits(_, _, _, _, _)
AddDigits(a, b, i, m, c) ==
    IF i > m THEN <<>>
    ELSE LET s == Digit(a, i) + Digit(b, i) + c
         IN  <<s % 10>> \o AddDigits(a, b, i + 1, m, s \div 10)

\* the Python int of the digits of a sum, whose top digit holds the sign
AddResult(s) == IntNorm([neg |-> s[Len(s)] >= 5, d |-> s])

\* a + b
IntAdd(a, b) == AddResult(AddDigits(a, b, 1, Max(Len(a.d), Len(b.d)) + 1, 0))

\* -a
IntNeg(a) ==
    IntAdd([neg |-> ~a.neg, d |-> [i \in 1..Len(a.d) |-> 9 - a.d[i]]],
           [neg |-> FALSE, d |-> <<1>>])

\* the Python int of a small model integer
IntOf(n) ==
    IF n >= 0 THEN [neg |-> FALSE, d |-> NatDigits(n)]
    ELSE IntNeg([neg |-> FALSE, d |-> NatDigits(-n)])

\* a * 10^18 + b * 10^9 + c, to write constants beyond the model's integers
IntOf3(a, b, c) ==
    IntNorm([neg |-> FALSE,
             d |-> [i \in 1..27 |->
                      IF i <= 9 THEN (c \div Pow10(i - 1)) % 10
                      ELSE IF i <= 18 THEN (b \div Pow10(i - 10)) % 10
                      ELSE (a \div Pow10(i - 19)) % 10]])

RECURSIVE DigitsValue(_, _)
DigitsValue(d, i) ==
    IF i > Len(d) THEN 0 ELSE d[i] + 10 * DigitsValue(d, i + 1)

\* the model integer of a Python int of at most 9 digits
IntSmall(x) == DigitsValue(x.d, 1) - (IF x.neg THEN Pow10(Len(x.d)) ELSE 0)

IntLe(a, b) == ~IntAdd(b, IntNeg(a)).neg
IntLt(a, b) == IntAdd(a, IntNeg(b)).neg

\* a // 10**k, Python's floor division
IntFloorDivPow10(a, k) ==
    IntNorm([neg |-> a.neg,
             d |-> IF k >= Len(a.d) THEN <<>> ELSE SubSeq(a.d, k + 1, Len(a.d))])

\* a % 10**k, Python's modulo: the result has the sign of the divisor
IntModPow10(a, k) ==
    IntNorm([neg |-> FALSE, d |-> [i \in 1..k |-> Digit(a, i)]])

\* a * 10**k
IntMulPow10(a, k) ==
    IntNorm([neg |-> a.neg, d |-> [i \in 1..k |-> 0] \o a.d])

RECURSIVE MulDigits(_, _, _, _)
MulDigits(d, i, c, m) ==
    IF i > Len(d) THEN NatDigits(c)
    ELSE LET s == d[i] * m + c
         IN  <<s % 10>> \o MulDigits(d, i + 1, s \div 10, m)

MulNat(a, m) == IntNorm([neg |-> FALSE, d |-> MulDigits(a.d, 1, 0, m)])

\* a * m for a small positive m
IntMulSmall(a, m) ==
    IF a.neg THEN IntNeg(MulNat(IntNeg(a), m)) ELSE MulNat(a, m)

RECURSIVE DivDigits(_, _, _, _)
DivDigits(d, i, r, m) ==
    IF i = 0 THEN [q |-> <<>>, r |-> r]
    ELSE LET cur  == r * 10 + d[i]
             rest == DivDigits(d, i - 1, cur % m, m)
         IN  [q |-> rest.q \o <<cur \div m>>, r |-> rest.r]

DivModNat(a, m) == DivDigits(a.d, Len(a.d), 0, m)

\* floor division: divmod(-p, m) out of dm = divmod(p, m), p > 0
DivModFloor(dm, m) ==
    IF dm.r = 0
    THEN [q |-> IntNeg(IntNorm([neg |-> FALSE, d |-> dm.q])), r |-> 0]
    ELSE [q |-> IntNeg(IntAdd(IntNorm([neg |-> FALSE, d |-> dm.q]),
                              [neg |-> FALSE, d |-> <<1>>])),
          r |-> m - dm.r]

DivModResult(dm) == [q |-> IntNorm([neg |-> FALSE, d |-> dm.q]), r |-> dm.r]

\* divmod(a, m) for a small positive m: [q, r] with a = q * m + r, 0 <= r < m
IntDivModSmall(a, m) ==
    IF a.neg THEN DivModFloor(DivModNat(IntNeg(a), m), m)
    ELSE DivModResult(DivModNat(a, m))

-----------------------------------------------------------------------------
(* datetime: the calendar of Python's datetime module *)

_is_leap(year) == year % 4 = 0 /\ (year % 100 # 0 \/ year % 400 = 0)

_days_before_year(year) ==
    LET y == year - 1
    IN  y * 365 + y \div 4 - y \div 100 + y \div 400

_days_in_month(year, month) ==
    IF month = 2 /\ _is_leap(year) THEN 29
    ELSE <<31, 28, 31, 30, 31, 30, 31, 31, 30, 31, 30, 31>>[month]

_days_before_month(year, month) ==
    <<0, 31, 59, 90, 120, 151, 181, 212, 243, 273, 304, 334>>[month]
    + (IF month > 2 /\ _is_leap(year) THEN 1 ELSE 0)

_ymd2ord(year, month, day) ==
    _days_before_year(year) + _days_before_month(year, month) + day

_ord2ymd(ordinal) ==
    LET n0   == ordinal - 1
        n400 == n0 \div 146097
        r400 == n0 % 146097
        n100 == r400 \div 36524
        r100 == r400 % 36524
        n4   == r100 \div 1461
        r4   == r100 % 1461
        n1   == r4 \div 365
        n    == r4 % 365
        year == n400 * 400 + 1 + n100 * 100 + n4 * 4 + n1
    IN  IF n1 = 4 \/ n100 = 4
        THEN [year |-> year - 1, month |-> 12, day |-> 31]
        ELSE LET guess == (n + 50) \div 32
                 month == IF _days_before_month(year, guess) > n
                          THEN guess - 1 ELSE guess
             IN  [year |-> year, month |-> month,
                  day |-> n - _days_before_month(year, month) + 1]

\* datetime.min and datetime.max as ordinals: 0001-01-01 and 9999-12-31
MinOrdinal == _ymd2ord(1, 1, 1)
MaxOrdinal == _ymd2ord(9999, 12, 31)

\* A datetime out of wall-clock seconds counted from `ord` 00:00:00, or the
\* OverflowError of datetime arithmetic that leaves [datetime.min, datetime.max].
datetime_shift(ord, seconds, aware, off) ==
    LET o == ord + seconds \div 86400
    IN  IF o < MinOrdinal \/ o > MaxOrdinal
        THEN [ok |-> FALSE, exc |-> "OverflowError", msg |-> "date value out of range"]
        ELSE [ok |-> TRUE,
              dt |-> [ord |-> o, sod |-> seconds % 86400, aware |-> aware, off |-> off]]

\* datetime(year, month, day[, hour, minute, second]): a naive datetime, or
\* the ValueError of a field out of range.
datetime_new(year, month, day, hour, minute, second) ==
    IF year < 1 \/ year > 9999
    THEN [ok |-> FALSE, exc |-> "ValueError", msg |-> "year is out of range"]
    ELSE IF month < 1 \/ month > 12
    THEN [ok |-> FALSE, exc |-> "ValueError", msg |-> "month must be in 1..12"]
    ELSE IF day < 1 \/ day > _days_in_month(year, month)
    THEN [ok |-> FALSE, exc |-> "ValueError", msg |-> "day is out of range for month"]
    ELSE IF hour > 23
    THEN [ok |-> FALSE, exc |-> "ValueError", msg |-> "hour must be in 0..23"]
    ELSE IF minute > 59
    THEN [ok |-> FALSE, exc |-> "ValueError", msg |-> "minute must be in 0..59"]
    ELSE IF second > 59
    THEN [ok |-> FALSE, exc |-> "ValueError", msg |-> "second must be in 0..59"]
    ELSE [ok |-> TRUE,
          dt |-> [ord |-> _ymd2ord(year, month, day),
                  sod |-> hour * 3600 + minute * 60 + second,
                  aware |-> FALSE, off |-> 0]]

\* tz.fromutc(utc), utc the outcome of bringing a datetime to UTC
fromutc(utc, tz) ==
    IF ~utc.ok THEN utc
    ELSE datetime_shift(utc.dt.ord, utc.dt.sod + tz * 60, TRUE, tz)

\* dt.astimezone(tz) of an aware dt: to UTC, then tz.fromutc
astimezone_aware(dt, tz) ==
    fromutc(datetime_shift(dt.ord, dt.sod - dt.off * 60, TRUE, 0), tz)

\* dt.astimezone(tz) of a naive dt: the wall clock is read in the system's
\* local zone (`local`, a fixed offset here).  CPython finds the zone by
\* probing localtime at the reading, and again a day earlier, and raises
\* ValueError when a probe leaves years 1..9999.
astimezone_naive(dt, tz, local) ==
    IF \/ ~datetime_shift(dt.ord, dt.sod + local * 60, FALSE, 0).ok
       \/ ~datetime_shift(dt.ord, dt.sod - 86400, FALSE, 0).ok
    THEN [ok |-> FALSE, exc |-> "ValueError", msg |-> "year is out of range"]
    ELSE astimezone_aware([dt EXCEPT !.aware = TRUE, !.off = local], tz)

\* dt.year
year_of(dt) == _ord2ymd(dt.ord).year

\* whole seconds from 1970-01-01T00:00:00 UTC to dt, as a Python int
\* (int(dt.timestamp()): the float is exact, |seconds| < 2^53)
dt_timestamp(dt) ==
    IntAdd(IntMulSmall(IntOf(dt.ord - _ymd2ord(1970, 1, 1)), 86400),
           IntOf(dt.sod - dt.off * 60))

\* dt1 <= dt2 for aware datetimes: their UTC instants compared
datetime_le(dt1, dt2) == IntLe(dt_timestamp(dt1), dt_timestamp(dt2))

\* lo <= x <= hi
IntWithin(lo, x, hi) == IntLe(lo, x) /\ IntLe(x, hi)

\* the UTC datetime dm.q days and dm.r seconds after 1970-01-01T00:00:00
utc_datetime(dm) ==
    IF ~IntWithin(IntOf(MinOrdinal - _ymd2ord(1970, 1, 1)), dm.q,
                  IntOf(MaxOrdinal - _ymd2ord(1970, 1, 1)))
    THEN [ok |-> FALSE, exc |-> "ValueError", msg |-> "year is out of range"]
    ELSE [ok |-> TRUE,
          dt |-> [ord |-> _ymd2ord(1970, 1, 1) + IntSmall(dm.q),
                  sod |-> dm.r, aware |-> TRUE, off |-> 0]]

\* datetime.fromtimestamp(seconds, tz=timezone.utc) on Linux: OverflowError
\* beyond time_t, OSError where gmtime() cannot hold the year in an int,
\* ValueError for a year outside 1..9999.
fromtimestamp(seconds) ==
    IF ~IntWithin(IntNeg(IntOf3(9, 223372036, 854775808)), seconds,
                  IntOf3(9, 223372036, 854775807))
    THEN [ok |-> FALSE, exc |-> "OverflowError",
          msg |-> "timestamp out of range for platform time_t"]
    ELSE IF ~IntWithin(IntNeg(IntOf3(0, 67768040, 609740800)), seconds,
                       IntOf3(0, 67768036, 191676799))
    THEN [ok |-> FALSE, exc |-> "OSError",
          msg |-> "[Errno 75] Value too large for defined data type"]
    ELSE utc_datetime(IntDivModSmall(seconds, 86400))

-----------------------------------------------------------------------------
(* str: sequences of one-character strings; None is the empty sequence *)

None == <<>>

DigitChars == <<"0", "1", "2", "3", "4", "5", "6", "7", "8", "9">>
UpperChars == <<"A", "B", "C", "D", "E", "F", "G", "H", "I", "J", "K", "L", "M",
                "N", "O", "P", "Q", "R", "S", "T", "U", "V", "W", "X", "Y", "Z">>
LowerChars == <<"a", "b", "c", "d", "e", "f", "g", "h", "i", "j", "k", "l", "m",
                "n", "o", "p", "q", "r", "s", "t", "u", "v", "w", "x", "y", "z">>

IsDigit(c) == \E i \in 1..10 : DigitChars[i] = c
IsSpace(c) == c \in {" ", "\t"}
DigitVal(c) == (CHOOSE i \in 1..10 : DigitChars[i] = c) - 1
Lower(c) ==
    IF \E i \in 1..26 : UpperChars[i] = c
    THEN LowerChars[CHOOSE i \in 1..26 : UpperChars[i] = c]
    ELSE c

\* int(s) of a string of decimal digits
int(s) ==
    IntNorm([neg |-> FALSE, d |-> [i \in 1..Len(s) |-> DigitVal(s[Len(s) + 1 - i])]])

\* str(x)
RECURSIVE str(_)
str(x) ==
    IF x.neg THEN <<"-">> \o str(IntNeg(x))
    ELSE IF x.d = <<>> THEN <<"0">>
    ELSE [i \in 1..Len(x.d) |-> DigitChars[x.d[Len(x.d) + 1 - i] + 1]]

\* sign, zeros up to `width` characters in all, digits
zero_fill(sign, digits, width) ==
    sign \o [i \in 1..Max(width - Len(sign) - Len(digits), 0) |-> "0"] \o digits

\* f'{x:0{width}d}'
format_0d(x, width) ==
    IF x.neg THEN zero_fill(<<"-">>, str(IntNeg(x)), width)
    ELSE zero_fill(<<>>, str(x), width)

\* '%02d' % n for a field of strftime, 0 <= n <= 99
two_digits(n) == <<DigitChars[(n \div 10) + 1], DigitChars[(n % 10) + 1]>>

\* s.strip()
RECURSIVE strip(_)
strip(s) ==
    IF s # <<>> /\ IsSpace(s[1]) THEN strip(Tail(s))
    ELSE IF s # <<>> /\ IsSpace(s[Len(s)]) THEN strip(SubSeq(s, 1, Len(s) - 1))
    ELSE s

\* '%Y-%m-%d' of strftime with glibc, which does not zero-pad %Y
strftime_date(ymd) ==
    str(IntOf(ymd.year)) \o <<"-">> \o two_digits(ymd.month) \o <<"-">>
    \o two_digits(ymd.day)

\* '%z' of strftime for an offset of whole minutes
strftime_z(off) ==
    IF off < 0 THEN <<"-">> \o two_digits((-off) \div 60) \o two_digits((-off) % 60)
    ELSE <<"+">> \o two_digits(off \div 60) \o two_digits(off % 60)

\* dt.strftime(f'%Y-%m-%d %H:%M:%S:{subsecond} %z')
strftime(dt, subsecond) ==
    strftime_date(_ord2ymd(dt.ord))
    \o <<" ">> \o two_digits(dt.sod \div 3600) \o <<":">>
    \o two_digits((dt.sod \div 60) % 60) \o <<":">> \o two_digits(dt.sod % 60)
    \o <<":">> \o subsecond \o <<" ">> \o strftime_z(dt.off)

-----------------------------------------------------------------------------
(* re: the three patterns, matched at the start of the string as re.match *)

RECURSIVE DigitRun(_, _)
DigitRun(s, i) ==
    IF i <= Len(s) /\ IsDigit(s[i]) THEN 1 + DigitRun(s, i + 1) ELSE 0

RECURSIVE SpaceRun(_, _)
SpaceRun(s, i) ==
    IF i <= Len(s) /\ IsSpace(s[i]) THEN 1 + SpaceRun(s, i + 1) ELSE 0

CharAt(s, i) == IF i >= 1 /\ i <= Len(s) THEN s[i] ELSE ""

\* `lit` stands at position i of s, letter case ignored (re.IGNORECASE)
LiteralAt(s, i, lit) ==
    /\ i + Len(lit) - 1 <= Len(s)
    /\ \A j \in 1..Len(lit) : Lower(s[i + j - 1]) = Lower(lit[j])

\* r'(?:NT|NTFS|LDAP)\s+(\d+)$', re.IGNORECASE: the group, or None
RE_NTFS(s) ==
    LET prefixes == {<<"N", "T">>, <<"N", "T", "F", "S">>, <<"L", "D", "A", "P">>}
        start(pre) == Len(pre) + 1 + SpaceRun(s, Len(pre) + 1)
        fits(pre) == /\ LiteralAt(s, 1, pre)
                     /\ SpaceRun(s, Len(pre) + 1) >= 1
                     /\ DigitRun(s, start(pre)) >= 1
                     /\ start(pre) + DigitRun(s, start(pre)) - 1 = Len(s)
    IN  IF \E pre \in prefixes : fits(pre)
        THEN SubSeq(s, start(CHOOSE pre \in prefixes : fits(pre)), Len(s))
        ELSE None

UNITS == <<"seconds", "milliseconds", "microseconds", "nanoseconds">>
UNITS_ABBREV == <<<<"s">>, <<"m", "s">>, <<"u", "s">>, <<"n", "s">>>>

\* r'(\d+)\s*(s|ms|us|ns)?$': [ok, timestamp_str, unit_abbrev]
RE_UNIX(s) ==
    LET n    == DigitRun(s, 1)
        rest == SubSeq(s, n + SpaceRun(s, n + 1) + 1, Len(s))
    IN  IF n >= 1 /\ (rest = <<>> \/ \E i \in 1..4 : UNITS_ABBREV[i] = rest)
        THEN [ok |-> TRUE, timestamp_str |-> SubSeq(s, 1, n), unit_abbrev |-> rest]
        ELSE [ok |-> FALSE]

\* pytz.all_timezones, cut to four zones of a fixed offset (minutes), in the
\* order of the pattern's alternation
ALL_TIMEZONES ==
    << [name |-> <<"E", "S", "T">>, off |-> -300],
       [name |-> <<"H", "S", "T">>, off |-> -600],
       [name |-> <<"M", "S", "T">>, off |-> -420],
       [name |-> <<"U", "T", "C">>, off |-> 0] >>


\* The zone part of RE_DATETIME, (?:\s+(?:([+-])(\d{2}):?(\d{2})|name))?, read
\* where the zone would start (z, after `spaces` whitespace characters);
\* `colon` is 1 where the optional colon stands.  The group is optional: with
\* no zone the match ends at subEnd.
re_zone_at(s, subEnd, spaces, z, colon, names) ==
    IF /\ spaces >= 1
       /\ CharAt(s, z) \in {"+", "-"}
       /\ DigitRun(s, z + 1) >= 2
       /\ DigitRun(s, z + 3 + colon) >= 2
       /\ (colon = 0 => DigitRun(s, z + 1) >= 4)
    THEN [tz_fixed_sign    |-> <<s[z]>>,
          tz_fixed_hours   |-> SubSeq(s, z + 1, z + 2),
          tz_fixed_minutes |-> SubSeq(s, z + 3 + colon, z + 4 + colon),
          tz_named         |-> None,
          end              |-> z + 4 + colon]
    ELSE IF spaces >= 1 /\ names # <<>>
    THEN [tz_fixed_sign    |-> None,
          tz_fixed_hours   |-> None,
          tz_fixed_minutes |-> None,
          tz_named         |-> SubSeq(s, z, z + Len(names[1].name) - 1),
          end              |-> z + Len(names[1].name) - 1]
    ELSE [tz_fixed_sign    |-> None,
          tz_fixed_hours   |-> None,
          tz_fixed_minutes |-> None,
          tz_named         |-> None,
          end              |-> subEnd]

\* the zones of the alternation whose name stands at z, in pattern order
zones_at(s, z) ==
    SelectSeq(ALL_TIMEZONES, LAMBDA tz : LiteralAt(s, z, tz.name))

re_zone_from(s, subEnd, spaces) ==
    re_zone_at(s, subEnd, spaces, subEnd + 1 + spaces,
               IF CharAt(s, subEnd + 4 + spaces) = ":" THEN 1 ELSE 0,
               zones_at(s, subEnd + 1 + spaces))

re_zone(s, subEnd) == re_zone_from(s, subEnd, SpaceRun(s, subEnd + 1))

\* The subsecond part, (:(?:\d{9}|\d{7}))?, after a time that ends at timeEnd:
\* nine digits are tried before seven, and `sub` digits stand after the colon.
re_subsecond_of(s, timeEnd, sub) ==
    IF sub >= 9
    THEN [nanosecond |-> SubSeq(s, timeEnd + 2, timeEnd + 10), ntfs_ticks |-> None]
         @@ re_zone(s, timeEnd + 10)
    ELSE IF sub >= 7
    THEN [nanosecond |-> None, ntfs_ticks |-> SubSeq(s, timeEnd + 2, timeEnd + 8)]
         @@ re_zone(s, timeEnd + 8)
    ELSE [nanosecond |-> None, ntfs_ticks |-> None] @@ re_zone(s, timeEnd)

re_subsecond(s, timeEnd) ==
    re_subsecond_of(s, timeEnd,
                    IF CharAt(s, timeEnd + 1) = ":" THEN DigitRun(s, timeEnd + 2) ELSE 0)

\* The time part, (?:\s+HH:MM:SS(:(?:\d{9}|\d{7}))?)?, after a date that ends
\* at dateEnd; h is where the hour would start.
re_time_at(s, dateEnd, spaces, h) ==
    IF /\ spaces >= 1
       /\ DigitRun(s, h) = 2 /\ CharAt(s, h + 2) = ":"
       /\ DigitRun(s, h + 3) = 2 /\ CharAt(s, h + 5) = ":"
       /\ DigitRun(s, h + 6) >= 2
    THEN [hour   |-> SubSeq(s, h, h + 1),
          minute |-> SubSeq(s, h + 3, h + 4),
          second |-> SubSeq(s, h + 6, h + 7)] @@ re_subsecond(s, h + 7)
    ELSE [hour |-> None, minute |-> None, second |-> None,
          nanosecond |-> None, ntfs_ticks |-> None] @@ re_zone(s, dateEnd)

re_time(s, dateEnd, spaces) == re_time_at(s, dateEnd, spaces, dateEnd + 1 + spaces)

\* The date part, (\d{1,4})-(\d{2})-(\d{2}), whose year has y digits
re_date(s, y) ==
    IF /\ y >= 1 /\ y <= 4
       /\ CharAt(s, y + 1) = "-"
       /\ DigitRun(s, y + 2) = 2
       /\ CharAt(s, y + 4) = "-"
       /\ DigitRun(s, y + 5) >= 2
    THEN [ok    |-> TRUE,
          year  |-> SubSeq(s, 1, y),
          month |-> SubSeq(s, y + 2, y + 3),
          day   |-> SubSeq(s, y + 5, y + 6)] @@ re_time(s, y + 6, SpaceRun(s, y + 7))
    ELSE [ok |-> FALSE]

\* RE_DATETIME.match(s): [ok, the named groups, end], where end is the index
\* of the last character the match consumed (matches.end()).  The pattern has
\* no '$': what follows `end` is not looked at.
RE_DATETIME(s) == re_date(s, DigitRun(s, 1))

-----------------------------------------------------------------------------
(* The module's functions.  A function that can raise returns [ok |-> TRUE, *)
(* ...] or [ok |-> FALSE, exc, msg].                                        *)

UNIX_EPOCH == [ord |-> _ymd2ord(1970, 1, 1), sod |-> 0, aware |-> TRUE, off |-> 0]

RECURSIVE guess_unix_unit_loop(_, _, _)

\* one turn of the loop: r is what datetime.fromtimestamp made of the
\* timestamp read in 10^-power seconds
guess_unix_unit_try(r, timestamp, max_dt, i, power) ==
    IF r.ok
    THEN IF datetime_le(r.dt, max_dt) \/ power = 9
         THEN [ok |-> TRUE, power |-> power]
         ELSE guess_unix_unit_loop(timestamp, max_dt, i + 1)
    ELSE IF r.exc \in {"ValueError", "OverflowError", "OSError"}
         THEN guess_unix_unit_loop(timestamp, max_dt, i + 1)
         ELSE r

guess_unix_unit_loop(timestamp, max_dt, i) ==
    IF i > 4
    THEN [ok |-> FALSE, exc |-> "ValueError", msg |-> "datetime value out of range"]
    ELSE guess_unix_unit_try(fromtimestamp(IntFloorDivPow10(timestamp, 3 * (i - 1))),
                             timestamp, max_dt, i, 3 * (i - 1))

\* max_dt = datetime(max_year, 12, 31, tzinfo=timezone.utc), or what it raises
guess_unix_unit_from(max_dt, timestamp) ==
    IF ~max_dt.ok THEN max_dt
    ELSE guess_unix_unit_loop(timestamp, [max_dt.dt EXCEPT !.aware = TRUE], 1)

guess_unix_unit(timestamp, max_year) ==
    guess_unix_unit_from(datetime_new(max_year, 12, 31, 0, 0, 0), timestamp)

\* r is UNIX_EPOCH + the whole seconds of the timestamp, or what that raises
parse_unix_timestamp_of(r, timestamp, power) ==
    IF ~r.ok THEN r
    ELSE [ok |-> TRUE,
          dt |-> r.dt,
          nanoseconds |-> IntMulPow10(IntModPow10(timestamp, power), 9 - power),
          unit |-> UNITS[power \div 3 + 1]]

\* A variant of parse_unix_timestamp whose division truncates toward zero, as
\* C's does.  It is not the code's: the floor semantics (C10) must tell the
\* code from it.
parse_unix_timestamp_truncating(timestamp, power) ==
    parse_unix_timestamp_of(
        fromtimestamp(IF timestamp.neg
                      THEN IntNeg(IntFloorDivPow10(IntNeg(timestamp), power))
                      ELSE IntFloorDivPow10(timestamp, power)),
        timestamp, power)

parse_unix_timestamp(timestamp, power) ==
    parse_unix_timestamp_of(fromtimestamp(IntFloorDivPow10(timestamp, power)),
                            timestamp, power)

\* the two strings of a TimeStr: a is dt in the local zone, b is dt in UTC
format_both(a, b, subsecond) ==
    IF ~a.ok THEN a
    ELSE IF ~b.ok THEN b
    ELSE [ok |-> TRUE,
          strs |-> <<strftime(a.dt, subsecond), strftime(b.dt, subsecond)>>]

format_unix_timestamp(dt, nanoseconds, local) ==
    format_both(astimezone_aware(dt, local), astimezone_aware(dt, 0),
                format_0d(nanoseconds, 9))

\* A variant of to_unix_timestamp that leaves the nanoseconds out.  It is not
\* the code's: the round trip (C1) must tell the code from it.
to_unix_timestamp_whole_seconds(dt, nanoseconds) ==
    IntMulPow10(dt_timestamp(dt), 9)

to_unix_timestamp(dt, nanoseconds) ==
    IntAdd(IntMulPow10(dt_timestamp(dt), 9), nanoseconds)

NFTS_EPOCH == [ord |-> _ymd2ord(1601, 1, 1), sod |-> 0, aware |-> TRUE, off |-> 0]

\* epoch + timedelta of dm.q days and dm.r seconds: OverflowError from
\* timedelta beyond 999999999 days, or from the sum beyond datetime.max
datetime_plus(epoch, dm) ==
    IF ~IntWithin(IntOf(-999999999), dm.q, IntOf(999999999))
    THEN [ok |-> FALSE, exc |-> "OverflowError",
          msg |-> "days must have magnitude <= 999999999"]
    ELSE datetime_shift(epoch.ord + IntSmall(dm.q), epoch.sod + dm.r, TRUE, 0)

\* epoch + timedelta(seconds=seconds)
datetime_plus_seconds(epoch, seconds) ==
    datetime_plus(epoch, IntDivModSmall(seconds, 86400))

\* r is NFTS_EPOCH + the whole seconds of the timestamp, or what that raises
parse_ntfs_timestamp_of(r, timestamp) ==
    IF ~r.ok THEN r
    ELSE [ok |-> TRUE, dt |-> r.dt, ticks |-> IntModPow10(timestamp, 7)]

parse_ntfs_timestamp(timestamp) ==
    parse_ntfs_timestamp_of(
        datetime_plus_seconds(NFTS_EPOCH, IntFloorDivPow10(timestamp, 7)), timestamp)

format_ntfs_timestamp(dt, ticks, local) ==
    format_both(astimezone_aware(dt, local), astimezone_aware(dt, 0),
                format_0d(ticks, 7))

\* A variant of to_ntfs_timestamp that adds its second argument as ticks,
\* without `// 100`.  It is not the code's: the round trip (C2) must tell the
\* code from it.
to_ntfs_timestamp_ticks(dt, nanoseconds) ==
    IntAdd(IntMulPow10(IntAdd(dt_timestamp(dt), IntNeg(dt_timestamp(NFTS_EPOCH))), 7),
           nanoseconds)

\* int((dt - NFTS_EPOCH).total_seconds()) * 10**7 + nanoseconds // 100
to_ntfs_timestamp(dt, nanoseconds) ==
    IntAdd(IntMulPow10(IntAdd(dt_timestamp(dt), IntNeg(dt_timestamp(NFTS_EPOCH))), 7),
           IntFloorDivPow10(nanoseconds, 2))

-----------------------------------------------------------------------------
(* Plugin *)

CopyAllText == <<"C", "o", "p", "y", " ", "A", "l", "l">>

\* zip(f, itertools.repeat(output_str_type)): f is what the format function
\* returned or raised
zip_repeat(f, output_str_type) ==
    IF ~f.ok THEN f
    ELSE [ok |-> TRUE,
          defs |-> << <<f.strs[1], output_str_type>>, <<f.strs[2], output_str_type>> >>]

\* The (output_str, output_str_type) pairs of one TimeStr, or the exception
\* raised while formatting.
item_defs_of(timestamp_type, dt, nanoseconds, local) ==
    CASE timestamp_type = "DATE" ->
            zip_repeat(format_unix_timestamp(dt, nanoseconds, local), "Date")
      [] timestamp_type = "NTFS_DATE" ->
            zip_repeat(format_ntfs_timestamp(dt, IntFloorDivPow10(nanoseconds, 2), local),
                       "NTFS/LDAP date")
      [] timestamp_type = "UNIX_TIMESTAMP" ->
            [ok |-> TRUE,
             defs |-> << <<str(to_unix_timestamp(dt, nanoseconds)), "Unix timestamp">> >>]
      [] timestamp_type = "NTFS_TIMESTAMP" ->
            [ok |-> TRUE,
             defs |-> << <<str(to_ntfs_timestamp(dt, nanoseconds)),
                           "NTFS/LDAP timestamp">> >>]

RECURSIVE collect_item_defs(_, _, _, _, _, _)

\* item_defs.extend / item_defs.append of what one TimeStr gave, then the
\* rest of the loop
item_defs_extend(item_defs, one, types, i, dt, nanoseconds, local) ==
    IF ~one.ok THEN one
    ELSE collect_item_defs(item_defs \o one.defs, types, i + 1, dt, nanoseconds, local)

\* the first loop of add_items, from the i-th TimeStr on
collect_item_defs(item_defs, types, i, dt, nanoseconds, local) ==
    IF i > Len(types) THEN [ok |-> TRUE, defs |-> item_defs]
    ELSE item_defs_extend(item_defs, item_defs_of(types[i], dt, nanoseconds, local),
                          types, i, dt, nanoseconds, local)

\* The second loop of add_items and the "Copy All" item.  An item is [text,
\* subtext, actions]: subtext is <<output_str_type, input_type>>, and actions
\* holds what each 'Copy' action puts on the clipboard: the output string, or
\* for "Copy All" every (output string, heading) row.
items_of(r, input_type) ==
    IF ~r.ok THEN r
    ELSE [ok |-> TRUE,
          items |->
            [i \in 1..Len(r.defs) |->
                [text |-> r.defs[i][1],
                 subtext |-> <<r.defs[i][2], input_type>>,
                 actions |-> <<r.defs[i][1]>>]]
            \o << [text |-> CopyAllText,
                   subtext |-> <<>>,
                   actions |-> <<r.defs>>] >>]

\* add_items: the items added to the query, or the exception raised before
\* the first one is added.
add_items(dt, nanoseconds, input_type, types, local) ==
    items_of(collect_item_defs(<<>>, types, 1, dt, nanoseconds, local), input_type)

\* the item parse_epoch adds for a caught exception: str(e), no action
error_item(e) ==
    [text |-> <<e.msg>>, subtext |-> <<>>, actions |-> <<>>]

\* The try / except of parse_epoch around a body that ended as r: [handled,
\* items, escaped, frame].  `escaped` is the exception that leaves the
\* function ("none" when none does); `frame` holds the locals.
parse_epoch_except(r, frame) ==
    IF r.ok
    THEN [handled |-> TRUE, items |-> r.items, escaped |-> "none", frame |-> frame]
    ELSE IF r.exc \in {"OverflowError", "ValueError"}
    THEN [handled |-> TRUE, items |-> <<error_item(r)>>, escaped |-> "none",
          frame |-> frame]
    ELSE [handled |-> TRUE, items |-> <<>>, escaped |-> r.exc, frame |-> frame]

\* the NTFS branch after parse_ntfs_timestamp returned or raised r
parse_epoch_ntfs_items(r, local) ==
    IF ~r.ok THEN r
    ELSE add_items(r.dt, IntMulPow10(r.ticks, 2), <<"NTFS time in 100 nanoseconds">>,
                   <<"NTFS_DATE", "DATE", "UNIX_TIMESTAMP">>, local)

parse_epoch_ntfs(timestamp, local) ==
    parse_epoch_except(parse_epoch_ntfs_items(parse_ntfs_timestamp(timestamp), local),
                       [route |-> "ntfs", timestamp |-> timestamp])

\* power = 3 * UNITS_ABBREV.index(unit_abbrev), or the guess
parse_epoch_power(unit_abbrev, timestamp) ==
    IF unit_abbrev # None
    THEN [ok |-> TRUE,
          power |-> 3 * ((CHOOSE i \in 1..4 : UNITS_ABBREV[i] = unit_abbrev) - 1)]
    ELSE guess_unix_unit(timestamp, 9999)

\* g is the power, or what guess_unix_unit raised
parse_epoch_unix_parsed(g, timestamp) ==
    IF ~g.ok THEN g ELSE parse_unix_timestamp(timestamp, g.power)

\* the Unix branch after parse_unix_timestamp returned or raised r
parse_epoch_unix_items(r, local) ==
    IF ~r.ok THEN r
    ELSE add_items(r.dt, r.nanoseconds, <<"Unix time in ", r.unit>>,
                   <<"DATE", "NTFS_DATE", "UNIX_TIMESTAMP", "NTFS_TIMESTAMP">>, local)

parse_epoch_unix(unit_abbrev, timestamp, local) ==
    parse_epoch_except(
        parse_epoch_unix_items(
            parse_epoch_unix_parsed(parse_epoch_power(unit_abbrev, timestamp), timestamp),
            local),
        [route |-> "unix", timestamp |-> timestamp])

\* parse_epoch after its two re.match calls: ntfs is the group of the first
\* pattern or None, unix what the second pattern matched
parse_epoch_matched(ntfs, unix, local) ==
    IF ntfs # None THEN parse_epoch_ntfs(int(ntfs), local)
    ELSE IF unix.ok THEN parse_epoch_unix(unix.unit_abbrev, int(unix.timestamp_str), local)
    ELSE [handled |-> FALSE, items |-> <<>>, escaped |-> "none",
          frame |-> [route |-> "none"]]

parse_epoch(query_str, local) ==
    parse_epoch_matched(RE_NTFS(query_str), RE_UNIX(query_str), local)

\* the utcoffset, in minutes, of pytz.timezone(name) (a zone of fixed offset)
pytz_timezone(name) ==
    ALL_TIMEZONES[CHOOSE i \in 1..Len(ALL_TIMEZONES) :
                      /\ Len(name) = Len(ALL_TIMEZONES[i].name)
                      /\ LiteralAt(name, 1, ALL_TIMEZONES[i].name)].off

\* int(group) of a group of at most four digits
int_group(g) == IntSmall(int(g))

\* what parse_datetime leaves when an exception e goes through it: nothing
\* is caught
parse_datetime_raise(e, matches_dict) ==
    [handled |-> TRUE, items |-> <<>>, escaped |-> e.exc,
     frame |-> [route |-> "datetime", matches_dict |-> matches_dict]]

\* the add_items call at the end of parse_datetime, and the return
parse_datetime_items(a, matches_dict, dt, nanoseconds) ==
    IF ~a.ok THEN parse_datetime_raise(a, matches_dict)
    ELSE [handled |-> TRUE, items |-> a.items, escaped |-> "none",
          frame |-> [route |-> "datetime", matches_dict |-> matches_dict,
                     dt |-> dt, nanoseconds |-> nanoseconds]]

\* aware is dt with its zone, or what attaching the zone raised
parse_datetime_add(aware, matches_dict, nanoseconds, local) ==
    IF ~aware.ok THEN parse_datetime_raise(aware, matches_dict)
    ELSE parse_datetime_items(
             add_items(aware.dt, nanoseconds, <<"date">>,
                 IF matches_dict.ntfs_ticks # None
                 THEN <<"NTFS_TIMESTAMP", "UNIX_TIMESTAMP", "NTFS_DATE", "DATE">>
                 ELSE <<"UNIX_TIMESTAMP", "NTFS_TIMESTAMP", "DATE", "NTFS_DATE">>,
                 local),
             matches_dict, aware.dt, nanoseconds)

\* dt.astimezone(timezone(input_timezone)) on the naive dt, input_timezone in
\* minutes: timezone() takes offsets strictly between -24h and 24h
astimezone_fixed(dt, input_timezone, local) ==
    IF input_timezone <= -1440 \/ input_timezone >= 1440
    THEN [ok |-> FALSE, exc |-> "ValueError",
          msg |-> "offset must be strictly between -24h and 24h"]
    ELSE astimezone_naive(dt, input_timezone, local)

\* A variant of parse_datetime_tz that reads a dt without a zone in the local
\* zone.  It is not the code's: C7 must tell the code from it.
parse_datetime_tz_local(matches_dict, dt, local) ==
    IF matches_dict.tz_fixed_sign # None
    THEN astimezone_fixed(dt,
             (IF matches_dict.tz_fixed_sign = <<"-">> THEN -1 ELSE 1)
             * (int_group(matches_dict.tz_fixed_hours) * 60
                + int_group(matches_dict.tz_fixed_minutes)),
             local)
    ELSE IF matches_dict.tz_named # None
    THEN [ok |-> TRUE,
          dt |-> [dt EXCEPT !.aware = TRUE, !.off = pytz_timezone(matches_dict.tz_named)]]
    ELSE [ok |-> TRUE, dt |-> [dt EXCEPT !.aware = TRUE, !.off = local]]

\* the three ways parse_datetime gives the naive dt a zone
parse_datetime_tz(matches_dict, dt, local) ==
    IF matches_dict.tz_fixed_sign # None
    THEN astimezone_fixed(dt,
             (IF matches_dict.tz_fixed_sign = <<"-">> THEN -1 ELSE 1)
             * (int_group(matches_dict.tz_fixed_hours) * 60
                + int_group(matches_dict.tz_fixed_minutes)),
             local)
    ELSE IF matches_dict.tz_named # None
    THEN [ok |-> TRUE,
          dt |-> [dt EXCEPT !.aware = TRUE, !.off = pytz_timezone(matches_dict.tz_named)]]
    ELSE [ok |-> TRUE, dt |-> [dt EXCEPT !.aware = TRUE, !.off = 0]]

\* nanoseconds out of the subsecond groups
parse_datetime_nanoseconds(matches_dict) ==
    IF matches_dict.nanosecond # None THEN int(matches_dict.nanosecond)
    ELSE IF matches_dict.ntfs_ticks # None
    THEN IntMulPow10(int(matches_dict.ntfs_ticks), 2)
    ELSE IntOf(0)

\* naive is dt after the optional dt.replace(hour, minute, second), or what
\* replace raised
parse_datetime_naive(naive, matches_dict, local) ==
    IF ~naive.ok THEN parse_datetime_raise(naive, matches_dict)
    ELSE parse_datetime_add(parse_datetime_tz(matches_dict, naive.dt, local),
                            matches_dict, parse_datetime_nanoseconds(matches_dict), local)

\* date is datetime(year, month, day), or what it raised
parse_datetime_date(date, matches_dict, local) ==
    IF ~date.ok THEN parse_datetime_raise(date, matches_dict)
    ELSE parse_datetime_naive(
             IF matches_dict.hour # None
             THEN datetime_new(int_group(matches_dict.year), int_group(matches_dict.month),
                               int_group(matches_dict.day), int_group(matches_dict.hour),
                               int_group(matches_dict.minute),
                               int_group(matches_dict.second))
             ELSE date,
             matches_dict, local)

parse_datetime_matched(matches_dict, local) ==
    IF ~matches_dict.ok
    THEN [handled |-> FALSE, items |-> <<>>, escaped |-> "none",
          frame |-> [route |-> "none"]]
    ELSE parse_datetime_date(
             datetime_new(int_group(matches_dict.year), int_group(matches_dict.month),
                          int_group(matches_dict.day), 0, 0, 0),
             matches_dict, local)

\* parse_datetime: as parse_epoch, but nothing is caught
parse_datetime(query_str, local) ==
    parse_datetime_matched(RE_DATETIME(query_str), local)

\* e is what parse_epoch returned or let escape
handleQuery_after(e, query_str, local) ==
    IF e.handled THEN e ELSE parse_datetime(query_str, local)

handleQuery_stripped(query_str, local) ==
    handleQuery_after(parse_epoch(query_str, local), query_str, local)

\* handleQuery: what the query holds and what escapes to the host
handleQuery(string, local) == handleQuery_stripped(strip(string), local)

-----------------------------------------------------------------------------
(* The inputs the model draws *)

\* timestamps are drawn as +-(m * 10^(3k) + d), k in 0..MaxScale, |d| <= MaxDelta
MaxScale == 3
MaxDelta == 1

Mantissas ==
    { IntOf(1),
      IntOf3(0, 1, 705321800),                \* 2024-01-15T12:30:00 in seconds
      IntOf3(1, 705321800, 123456789),        \* the same in nanoseconds
      IntOf3(0, 0, 31579200),                 \* 1968-12-31T12:00:00, negated
      IntOf3(0, 62, 135596800),               \* 0001-01-01T00:00:00, negated
      IntOf3(0, 253, 402257600),              \* 9999-12-31T12:00:00
      IntOf3(0, 253, 402300800),              \* 10000-01-01T00:00:00
      IntOf3(0, 67768036, 191676800),         \* past what gmtime() can hold
      IntOf3(9, 223372036, 854775808) }       \* 2^63

Scaled == { IntMulPow10(m, 3 * k) : m \in Mantissas, k \in 0..MaxScale }

Timestamps ==
    LET near == { IntAdd(x, IntOf(d)) : x \in Scaled, d \in -MaxDelta..MaxDelta }
    IN  near \cup { IntNeg(x) : x \in near }

Powers == {0, 3, 6, 9}

MaxYears == {1968, 1970, 2038, 9999, 10000}

\* the local zone's offsets, in minutes
LocalOffsets == {-300, 0, 60}

Concat(parts) == parts[1] \o parts[2] \o parts[3] \o parts[4]

EpochQueries ==
    LET numbers  == { str(x) : x \in Scaled } \cup {<<"0">>, <<"1", "5", "0">>}
        prefixes == { <<>>, <<"-">>, <<"N", "T", " ">>, <<"l", "d", "a", "p", " ", " ">>,
                      <<"N", "T", " ", "-">> }
        suffixes == { <<>>, <<"s">>, <<" ", "m", "s">>, <<"u", "s">>, <<"n", "s">>,
                      <<"x">> }
    IN  { Concat(<<pre, n, suf, <<>>>>) :
            pre \in prefixes, n \in numbers, suf \in suffixes }

DateQueries ==
    LET dates == { <<"2", "0", "2", "4", "-", "0", "1", "-", "1", "5">>,
                   <<"2", "0", "2", "4", "-", "1", "3", "-", "0", "1">>,
                   <<"2", "0", "2", "3", "-", "0", "2", "-", "2", "9">>,
                   <<"1", "9", "6", "9", "-", "1", "2", "-", "3", "1">>,
                   <<"1", "-", "0", "1", "-", "0", "1">>,
                   <<"0", "-", "0", "1", "-", "0", "1">>,
                   <<"9", "9", "9", "9", "-", "1", "2", "-", "3", "1">> }
        times == { <<>>,
                   <<" ", "1", "2", ":", "3", "0", ":", "0", "0">>,
                   <<" ", "2", "3", ":", "5", "9", ":", "5", "9">>,
                   <<" ", "2", "4", ":", "0", "0", ":", "0", "0">> }
        subseconds == { <<>>,
                   <<":", "1", "2", "3", "4", "5", "6", "7", "8", "9">>,
                   <<":", "1", "2", "3", "4", "5", "6", "7">>,
                   <<":", "1", "2", "3", "4", "5", "6", "7", "8">>,
                   <<":", "1", "2", "3", "4", "5">> }
        zones == { <<>>,
                   <<" ", "+", "0", "0", "0", "0">>,
                   <<" ", "+", "0", "1", ":", "0", "0">>,
                   <<" ", "-", "0", "5", "0", "0">>,
                   <<" ", "+", "2", "4", "0", "0">>,
                   <<" ", "u", "t", "c">>,
                   <<" ", "E", "S", "T">>,
                   <<" ", "F", "o", "o", "/", "B", "a", "r">> }
    IN  { Concat(<<d, t, u, z>>) :
            d \in dates, t \in times, u \in subseconds, z \in zones }

Queries == EpochQueries \cup DateQueries

-----------------------------------------------------------------------------
(* The state machine *)

VARIABLES
    LOCAL_TZINFO,   \* the local zone's UTC offset in minutes, read at start-up
    op,             \* the function applied last ("none" before the first)
    args,           \* its arguments
    ret             \* what it returned or raised

vars == <<LOCAL_TZINFO, op, args, ret>>

Init ==
    /\ LOCAL_TZINFO \in LocalOffsets
    /\ op = "none"
    /\ args = <<>>
    /\ ret = <<>>

\* the host hands a query to the plugin
HandleQuery(string) ==
    /\ op = "none"
    /\ op' = "handleQuery"
    /\ args' = [string |-> string, pasted |-> FALSE]
    /\ ret' = handleQuery(string, LOCAL_TZINFO)
    /\ UNCHANGED LOCAL_TZINFO

\* the user pastes a date string the plugin put out back into the query
PasteBack(i) ==
    /\ op = "handleQuery"
    /\ ~args.pasted
    /\ i \in 1..Len(ret.items)
    /\ ret.items[i].subtext # <<>>
    /\ ret.items[i].subtext[1] = "Date"
    /\ op' = "handleQuery"
    /\ args' = [string |-> ret.items[i].text, pasted |-> TRUE,
                utc |-> (i % 2 = 0), from |-> ret.frame]
    /\ ret' = handleQuery(ret.items[i].text, LOCAL_TZINFO)
    /\ UNCHANGED LOCAL_TZINFO

GuessUnixUnit(timestamp, max_year) ==
    /\ op = "none"
    /\ op' = "guess_unix_unit"
    /\ args' = [timestamp |-> timestamp, max_year |-> max_year]
    /\ ret' = guess_unix_unit(timestamp, max_year)
    /\ UNCHANGED LOCAL_TZINFO

ParseUnixTimestamp(timestamp, power) ==
    /\ op = "none"
    /\ op' = "parse_unix_timestamp"
    /\ args' = [timestamp |-> timestamp, power |-> power]
    /\ ret' = parse_unix_timestamp(timestamp, power)
    /\ UNCHANGED LOCAL_TZINFO

\* to_unix_timestamp applied to the pair parse_unix_timestamp returned
ToUnixTimestamp ==
    /\ op = "parse_unix_timestamp"
    /\ ret.ok
    /\ op' = "to_unix_timestamp"
    /\ args' = [timestamp |-> args.timestamp, power |-> args.power,
                dt |-> ret.dt, nanoseconds |-> ret.nanoseconds]
    /\ ret' = [value |-> to_unix_timestamp(ret.dt, ret.nanoseconds)]
    /\ UNCHANGED LOCAL_TZINFO

ParseNtfsTimestamp(timestamp) ==
    /\ op = "none"
    /\ op' = "parse_ntfs_timestamp"
    /\ args' = [timestamp |-> timestamp]
    /\ ret' = parse_ntfs_timestamp(timestamp)
    /\ UNCHANGED LOCAL_TZINFO

\* to_ntfs_timestamp applied to what parse_ntfs_timestamp returned: to
\* (dt, ticks) as it stands, or to (dt, ticks * 100) as parse_epoch passes it on
ToNtfsTimestamp(as_nanoseconds) ==
    /\ op = "parse_ntfs_timestamp"
    /\ ret.ok
    /\ op' = "to_ntfs_timestamp"
    /\ LET nanoseconds == IF as_nanoseconds THEN IntMulPow10(ret.ticks, 2) ELSE ret.ticks
       IN  /\ args' = [timestamp |-> args.timestamp, as_nanoseconds |-> as_nanoseconds,
                       dt |-> ret.dt, nanoseconds |-> nanoseconds]
           /\ ret' = [value |-> to_ntfs_timestamp(ret.dt, nanoseconds)]
    /\ UNCHANGED LOCAL_TZINFO

Next ==
    \/ \E string \in Queries : HandleQuery(string)
    \/ \E i \in 1..8 : PasteBack(i)

Spec == Init /\ [][Next]_vars

CodecNext ==
    \/ \E timestamp \in Timestamps, max_year \in MaxYears :
          GuessUnixUnit(timestamp, max_year)
    \/ \E timestamp \in Timestamps, power \in Powers :
          ParseUnixTimestamp(timestamp, power)
    \/ ToUnixTimestamp
    \/ \E timestamp \in Timestamps : ParseNtfsTimestamp(timestamp)
    \/ \E as_nanoseconds \in BOOLEAN : ToNtfsTimestamp(as_nanoseconds)

CodecSpec == Init /\ [][CodecNext]_vars

-----------------------------------------------------------------------------
(* What the properties below are stated with *)

\* 10**9
Billion == IntOf3(0, 1, 0)

\* the texts of the items whose subtext names output_str_type
ItemTexts(items, output_str_type) ==
    { items[i].text : i \in { j \in 1..Len(items) :
                                /\ items[j].subtext # <<>>
                                /\ items[j].subtext[1] = output_str_type } }

\* a query is a sign and then digits to its end
SignedInteger(s) ==
    /\ Len(s) >= 2
    /\ s[1] \in {"-", "+"}
    /\ DigitRun(s, 2) = Len(s) - 1

\* the query was read as a calendar string, and items came out of it
ParsedDate ==
    /\ op = "handleQuery"
    /\ ret.frame.route = "datetime"
    /\ ret.escaped = "none"

\* the seconds from 1970-01-01T00:00:00 to the wall-clock reading the groups
\* of a calendar string spell (midnight when it has no time)
WallSeconds(m) ==
    IntAdd(IntMulSmall(IntOf(_ymd2ord(int_group(m.year), int_group(m.month),
                                      int_group(m.day)) - _ymd2ord(1970, 1, 1)),
                       86400),
           IntOf(IF m.hour = None THEN 0
                 ELSE int_group(m.hour) * 3600 + int_group(m.minute) * 60
                      + int_group(m.second)))

\* the nanoseconds the sub-second groups of a calendar string spell
SubSecondNanoseconds(m) ==
    IF m.nanosecond # None THEN int(m.nanosecond)
    ELSE IF m.ntfs_ticks # None THEN IntMulPow10(int(m.ntfs_ticks), 2)
    ELSE IntOf(0)

\* the offset, in minutes, the fixed-offset groups of a calendar string spell
FixedOffset(m) ==
    (IF m.tz_fixed_sign = <<"-">> THEN -1 ELSE 1)
    * (int_group(m.tz_fixed_hours) * 60 + int_group(m.tz_fixed_minutes))

\* a calendar value the groups spell lies outside the calendar
CalendarOutOfRange(m) ==
    \/ int_group(m.year) = 0
    \/ int_group(m.month) \notin 1..12
    \/ int_group(m.day) \notin 1.._days_in_month(int_group(m.year), int_group(m.month))
    \/ /\ m.hour # None
       /\ \/ int_group(m.hour) > 23
          \/ int_group(m.minute) > 59
          \/ int_group(m.second) > 59

\* the request ended with one error message and nothing else
SingleError(items) ==
    Len(items) = 1 /\ items[1].actions = <<>> /\ items[1].subtext = <<>>

\* power p reads the timestamp as a valid instant of a year up to max_year
Plausible(timestamp, p, max_year) ==
    /\ fromtimestamp(IntFloorDivPow10(timestamp, p)).ok
    /\ year_of(fromtimestamp(IntFloorDivPow10(timestamp, p)).dt) <= max_year

-----------------------------------------------------------------------------
(* C1: the Unix round trip *)

\* C1, as the specification states it: to_unix_timestamp applied to the pair
\* parse_unix_timestamp(t, p) returned gives back exactly t, for every power p.
C1_RoundTripGivesT ==
    op = "to_unix_timestamp" => ret.value = args.timestamp

\* C1, as the code has it: to_unix_timestamp applied to the pair
\* parse_unix_timestamp(t, p) returned gives t * 10^(9 - p), the timestamp in
\* nanoseconds, which is t itself at p = 9 only.
C1_RoundTripGivesNanoseconds ==
    op = "to_unix_timestamp" =>
        /\ ret.value = IntMulPow10(args.timestamp, 9 - args.power)
        /\ (args.power = 9 => ret.value = args.timestamp)

\* a negative timestamp in milliseconds, not a whole second, went the round
\* trip and came back in nanoseconds
C1_Witness ==
    /\ op = "to_unix_timestamp"
    /\ args.power = 3
    /\ args.timestamp.neg
    /\ args.nanoseconds # IntOf(0)
    /\ ret.value = IntMulPow10(args.timestamp, 6)
    /\ ret.value # args.timestamp

-----------------------------------------------------------------------------
(* C2: the NTFS round trip *)

\* C2, as the specification states it: to_ntfs_timestamp applied directly to
\* the (dt, ticks) pair parse_ntfs_timestamp(t) returned gives back exactly t.
C2_DirectRoundTripGivesT ==
    (op = "to_ntfs_timestamp" /\ ~args.as_nanoseconds) => ret.value = args.timestamp

\* C2, as the code has it: to_ntfs_timestamp takes nanoseconds.  Applied to
\* (dt, ticks * 100), as parse_epoch calls it, it gives back t; applied to
\* (dt, ticks) it gives (t // 10^7) * 10^7 + (t % 10^7) // 100.
C2_RoundTripThroughNanoseconds ==
    op = "to_ntfs_timestamp" =>
        IF args.as_nanoseconds
        THEN ret.value = args.timestamp
        ELSE ret.value =
                IntAdd(IntMulPow10(IntFloorDivPow10(args.timestamp, 7), 7),
                       IntFloorDivPow10(IntModPow10(args.timestamp, 7), 2))

\* a timestamp with ticks below the second went the round trip through
\* nanoseconds and came back
C2_Witness ==
    /\ op = "to_ntfs_timestamp"
    /\ args.as_nanoseconds
    /\ args.nanoseconds # IntOf(0)
    /\ ret.value = args.timestamp

-----------------------------------------------------------------------------
(* C3, C9: guess_unix_unit *)

\* C3: guess_unix_unit never returns a power p that reads the timestamp as an
\* instant of a year beyond max_year, unless p = 9 and no smaller power reads
\* it as a valid instant of a year up to max_year.
C3_NeverBeyondMaxYear ==
    (op = "guess_unix_unit" /\ ret.ok) =>
        \/ Plausible(args.timestamp, ret.power, args.max_year)
        \/ /\ ret.power = 9
           /\ \A q \in {0, 3, 6} : ~Plausible(args.timestamp, q, args.max_year)

\* C9: for a max_year the calendar holds, whenever some power reads the
\* timestamp as a valid instant of a year up to max_year, guess_unix_unit
\* returns the smallest such power, 31 December of max_year included.
C9_SmallestPlausiblePower ==
    (op = "guess_unix_unit" /\ args.max_year \in 1..9999) =>
        \A p \in Powers :
            (/\ Plausible(args.timestamp, p, args.max_year)
             /\ \A q \in Powers : q < p => ~Plausible(args.timestamp, q, args.max_year))
            => (ret.ok /\ ret.power = p)

-----------------------------------------------------------------------------
(* C4: sign-prefixed integers *)

\* C4: a query that is a sign-prefixed integer is routed to the Unix codec,
\* and "-1" comes out as 1969-12-31 23:59:59 UTC with sub-second 0.
C4_SignedIntegerIsUnix ==
    (op = "handleQuery" /\ SignedInteger(strip(args.string))) =>
        /\ ret.frame.route = "unix"
        /\ (strip(args.string) = <<"-", "1">> =>
                <<"1", "9", "6", "9", "-", "1", "2", "-", "3", "1", " ",
                  "2", "3", ":", "5", "9", ":", "5", "9", ":",
                  "0", "0", "0", "0", "0", "0", "0", "0", "0", " ",
                  "+", "0", "0", "0", "0">> \in ItemTexts(ret.items, "Date"))

-----------------------------------------------------------------------------
(* C5: trailing characters of a calendar string *)

\* C5: when parse_datetime makes items out of a query, the match consumed the
\* whole query; otherwise it fails.
C5_WholeQueryConsumed ==
    ParsedDate => ret.frame.matches_dict.end = Len(strip(args.string))

-----------------------------------------------------------------------------
(* C6: failures *)

\* C6: no exception escapes handleQuery, and a calendar string that spells a
\* value outside the calendar ends the request with one error message.
C6_FailureSurface ==
    op = "handleQuery" =>
        /\ ret.escaped = "none"
        /\ (/\ ret.frame.route = "datetime"
            /\ CalendarOutOfRange(ret.frame.matches_dict)) => SingleError(ret.items)

-----------------------------------------------------------------------------
(* C7: a calendar string without a zone *)

\* C7: a calendar string with no zone is read in UTC whatever the local zone
\* is, and its Unix timestamp item is (the seconds from 1970-01-01T00:00:00
\* to the reading) * 10^9 + the sub-second nanoseconds;
\* "2024-01-15 12:30:00:123456789" gives 1705321800123456789.
C7_NoZoneIsUTC ==
    (/\ ParsedDate
     /\ ret.frame.matches_dict.tz_fixed_sign = None
     /\ ret.frame.matches_dict.tz_named = None) =>
        /\ ret.frame.dt.off = 0
        /\ dt_timestamp(ret.frame.dt) = WallSeconds(ret.frame.matches_dict)
        /\ ItemTexts(ret.items, "Unix timestamp") =
              { str(IntAdd(IntMulPow10(WallSeconds(ret.frame.matches_dict), 9),
                           SubSecondNanoseconds(ret.frame.matches_dict))) }
        /\ (strip(args.string) =
              <<"2", "0", "2", "4", "-", "0", "1", "-", "1", "5", " ",
                "1", "2", ":", "3", "0", ":", "0", "0", ":",
                "1", "2", "3", "4", "5", "6", "7", "8", "9">>
            => ItemTexts(ret.items, "Unix timestamp") =
                 { <<"1", "7", "0", "5", "3", "2", "1", "8", "0", "0",
                     "1", "2", "3", "4", "5", "6", "7", "8", "9">> })

\* the specification's example was typed where the local zone is not UTC
C7_Witness ==
    /\ ParsedDate
    /\ LOCAL_TZINFO # 0
    /\ ~args.pasted
    /\ args.string =
          <<"2", "0", "2", "4", "-", "0", "1", "-", "1", "5", " ",
            "1", "2", ":", "3", "0", ":", "0", "0", ":",
            "1", "2", "3", "4", "5", "6", "7", "8", "9">>
    /\ ret.frame.matches_dict.tz_fixed_sign = None
    /\ ret.frame.matches_dict.tz_named = None
    /\ <<"1", "7", "0", "5", "3", "2", "1", "8", "0", "0",
         "1", "2", "3", "4", "5", "6", "7", "8", "9">>
          \in ItemTexts(ret.items, "Unix timestamp")

-----------------------------------------------------------------------------
(* C8: a calendar string with a fixed offset *)

\* C8: a calendar string with a fixed offset is read as the instant whose
\* wall clock at that offset is the date and time given (UTC seconds = wall
\* seconds - offset), whatever the local zone is; and the "+0000" string of a
\* date item, typed back, gives the instant that was formatted.
C8_FixedOffsetWhateverLocal ==
    (ParsedDate /\ ret.frame.matches_dict.tz_fixed_sign # None) =>
        /\ dt_timestamp(ret.frame.dt) =
              IntAdd(WallSeconds(ret.frame.matches_dict),
                     IntOf(-60 * FixedOffset(ret.frame.matches_dict)))
        /\ (args.pasted /\ args.utc /\ args.from.route = "datetime") =>
              dt_timestamp(ret.frame.dt) = dt_timestamp(args.from.dt)

-----------------------------------------------------------------------------
(* C10: floor semantics of parse_unix_timestamp *)

\* C10: when parse_unix_timestamp(t, p) succeeds, 0 <= nanoseconds < 10^9, dt
\* is before the Unix epoch exactly when t < 0, and dt's whole seconds since
\* the epoch * 10^9 + nanoseconds = t * 10^(9 - p).
C10_FloorSemantics ==
    (op = "parse_unix_timestamp" /\ ret.ok) =>
        /\ ~ret.nanoseconds.neg
        /\ IntLt(ret.nanoseconds, Billion)
        /\ IntLt(dt_timestamp(ret.dt), IntOf(0)) <=> args.timestamp.neg
        /\ IntAdd(IntMulPow10(dt_timestamp(ret.dt), 9), ret.nanoseconds)
              = IntMulPow10(args.timestamp, 9 - args.power)

\* a negative timestamp in milliseconds, not a whole second, was parsed
C10_Witness ==
    /\ op = "parse_unix_timestamp"
    /\ ret.ok
    /\ args.timestamp.neg
    /\ args.power = 3
    /\ ret.nanoseconds # IntOf(0)
    /\ IntLt(dt_timestamp(ret.dt), IntOf(0))

====
